---- MODULE Spec2Model ----
(***************************************************************************)
(* stress-ng syncload stressor (stress-syncload.c).                        *)
(*                                                                         *)
(* N worker processes run stress_syncload().  Instance 0 publishes a       *)
(* shared start_time, every instance polls it in stress_syncload_gettime() *)
(* to seed its private deadline `timeout`, and then alternates busy and    *)
(* sleep phases until keep_stressing() fails.                              *)
(*                                                                         *)
(* Time is counted in units of 1e-4 s, so that sec / 10 of a whole number  *)
(* of milliseconds is exact: 1 ms = 10 units and its jitter is 1 unit.     *)
(***************************************************************************)
EXTENDS Integers, Sequences, FiniteSets, TLC

\* ------------------------------------------------------------------ bounds
NumWorkers == 2
MaxOps == 2
MaxSpin == 1
MaxDrift == 1

\* ------------------------------------------------------- program constants
STRESS_SYNCLOAD_MS_DEFAULT == 125
STRESS_SYNCLOAD_MS_MIN == 1
STRESS_SYNCLOAD_MS_MAX == 10000
EXIT_SUCCESS == 0

Workers == 0 .. (NumWorkers - 1)

\* The three builds of settime/gettime selected by the preprocessor.
Variants == {"atomic", "spinlock", "racy"}

\* stress_syncload_ops[] as built on x86-64, on ARM and on any other machine.
OpsX86 == <<"none", "nop", "pause", "sched_yield", "rdrand", "mfence", "loop">>
OpsArm == <<"none", "nop", "yield", "sched_yield", "mfence", "loop">>
OpsGeneric == <<"none", "nop", "sched_yield", "mfence", "loop">>
Registries == {OpsX86, OpsArm, OpsGeneric}

\* The builds tried: a way to synchronise start_time and a registry.
Builds == {<<"atomic", OpsX86>>, <<"spinlock", OpsArm>>, <<"racy", OpsGeneric>>}

\* The values of stress_mwc8().
Mwc8 == 0 .. 255

VARIABLES
    variant,                \* which #if branch of settime/gettime was built
    stress_syncload_ops,    \* the registry of spin primitives that was built
    settings,               \* the settings store: name -> uint64
    max_ops,                \* args->max_ops
    running,                \* the instances that were started
    start_time,             \* g_shared->syncload.start_time, as two words
    lock,                   \* g_shared->syncload.lock: its holder, or -1
    g_keep_stressing_flag,  \* what keep_stressing_flag() returns
    now,                    \* what stress_time_now() returns
    pc,                     \* each worker's position in stress_syncload()
    ret,                    \* each worker's result of shim_pthread_spin_lock
    t,                      \* gettime's local t, as two words
    timeout,                \* each worker's deadline
    delay_type,             \* each worker's cursor into the registry
    op,                     \* each worker's selected primitive
    counter,                \* each worker's bogo-op counter
    procState,              \* the states each worker reported, in order
    rc,                     \* each worker's return value, -1 before it returns
    \* ---- history, never read by the program ----
    published,              \* the clock value settime stored, 0 before
    stores,                 \* how many times settime stored a clock value
    leaderStart,            \* the clock when instance 0 entered stress_syncload
    lockFailed,             \* some shim_pthread_spin_lock returned non-zero
    seed,                   \* what gettime returned to each worker
    spins,                  \* op() calls in the worker's current busy phase
    opRead,                 \* the clock reading that admitted the last op()
    busyStarted,            \* busy phases started
    sleepFinished,          \* sleep phases finished, slept or skipped
    sleepCalls,             \* calls of shim_nanosleep_uint64
    sleepArg,               \* the argument of the last such call
    exitVia,                \* how the worker left the loop
    jit,                    \* the last evaluation of stress_syncload_jitter
    jitterSum,              \* the sum of the jitters added to each timeout
    entryStop,              \* the stop was asserted when gettime returned
    stopEarly,              \* the stop was asserted before any store of start_time
    exited,                 \* option parsing ended the process
    lastOpt                 \* the last option value handed to stress_set_syncload_ms

cfgVars == <<variant, stress_syncload_ops, settings, max_ops, running, exited,
             lastOpt>>
syncVars == <<start_time, lock, published, stores, lockFailed>>
envVars == <<g_keep_stressing_flag, now>>
getVars == <<ret, t, seed, leaderStart>>
busyVars == <<delay_type, op, spins, opRead, busyStarted>>
sleepVars == <<sleepFinished, sleepCalls, sleepArg, counter>>
endVars == <<procState, rc, exitVia>>
histVars == <<jit, jitterSum, entryStop, stopEarly>>
vars == <<cfgVars, syncVars, envVars, getVars, busyVars, sleepVars, endVars,
          pc, timeout, histVars>>

\* ------------------------------------------------------------ pure helpers

\* A double is stored and loaded as two machine words where the build has no
\* atomic 64-bit access.
WordBase == 2 ^ 16
Hi(v) == v \div WordBase
Lo(v) == v % WordBase
Words(v) == [hi |-> Hi(v), lo |-> Lo(v)]
Val(w2) == w2.hi * WordBase + w2.lo

\* The wall clock at the start of a run: both words non-zero, and far above
\* any deadline counted from zero.
Epoch == 16 * WordBase + 17

\* syncload_msbusy / 1000.0, in units of 1e-4 s.
SecOfMs_hundredth(ms) == ms * 100
SecOfMs(ms) == ms * 10

\* stress_get_setting(): the stored value, or the caller's default untouched.
stress_get_setting(name, default) ==
    IF name \in DOMAIN settings THEN settings[name] ELSE default

\* stress_check_range(): passes when lo <= val <= hi, ends the process otherwise.
stress_check_range(val, lo, hi) == lo <= val /\ val <= hi

\* stress_set_setting(): the settings store with name set to val.
stress_set_setting(name, val) ==
    [n \in DOMAIN settings \cup {name} |-> IF n = name THEN val ELSE settings[n]]

\* The two options that are handed to stress_set_syncload_ms().
OptNames == {"syncload-msbusy", "syncload-mssleep"}

\* The option values tried: around both ends of the range, and inside it.
OptValues == {0, STRESS_SYNCLOAD_MS_MIN, STRESS_SYNCLOAD_MS_MIN + 1,
              STRESS_SYNCLOAD_MS_DEFAULT, STRESS_SYNCLOAD_MS_MAX - 1,
              STRESS_SYNCLOAD_MS_MAX, STRESS_SYNCLOAD_MS_MAX + 1}

syncload_msbusy == stress_get_setting("syncload-msbusy", STRESS_SYNCLOAD_MS_DEFAULT)
syncload_mssleep ==
    stress_get_setting("syncload-mssleep", STRESS_SYNCLOAD_MS_DEFAULT \div 2)
sec_busy == SecOfMs(syncload_msbusy)
sec_sleep == SecOfMs(syncload_mssleep)

\* (stress_mwc8() >> 3) & 2
JitterSelector(r) == (((r \div 8) \div 2) % 2) * 2

stress_syncload_jitter_undivided(sec, r) ==
    CASE JitterSelector(r) = 0 -> sec
      [] JitterSelector(r) = 1 -> -sec
      [] OTHER -> 0

stress_syncload_jitter(sec, r) ==
    CASE JitterSelector(r) = 0 -> sec \div 10
      [] JitterSelector(r) = 1 -> -(sec \div 10)
      [] OTHER -> 0

\* What stress_syncload_jitter(sec) can return, over every stress_mwc8() value.
Jitters(sec) == {stress_syncload_jitter(sec, r) : r \in Mwc8}

\* syncload_mssleep * 1000000 nanoseconds, as whole seconds and nanoseconds.
SleepNsec(ms) == [sec |-> ms \div 1000, nsec |-> (ms % 1000) * 1000000]

\* keep_stressing(args): the flag, and the bogo-op limit when one is set.
keep_stressing_flag == g_keep_stressing_flag
keep_stressing(w) ==
    keep_stressing_flag /\ (max_ops = 0 \/ counter[w] < max_ops)

\* if (args->instance == 0)
IsLeader_every(w) == TRUE
IsLeader(w) == w = 0

\* if (!keep_stressing_flag()) break;
BreakAfterBusy_never == FALSE
BreakAfterBusy == ~keep_stressing_flag

\* while ((t <= 0.0) && keep_stressing(args))
GettimeWaits_unset(w) == Val(t[w]) <= 0
GettimeWaits(w) == Val(t[w]) <= 0 /\ keep_stressing(w)

\* while (stress_time_now() < timeout)
BusyContinues_le(clock, deadline) == clock <= deadline
BusyContinues_ge(clock, deadline) == clock >= deadline
BusyContinues(clock, deadline) == clock < deadline

\* stress_time_now(): the clock never runs backwards.  A reading is the last
\* reading again, or the deadline it is about to be compared with: every other
\* reading compares like one of these two.
TimeNow(deadline) == {now} \cup {d \in {deadline} : d > now}

\* The readings before any deadline exists: the clock may move MaxDrift units.
TimeNowStartup == {now} \cup (IF now < Epoch + MaxDrift THEN {now + 1} ELSE {})

\* if (stress_time_now() < timeout) shim_nanosleep_uint64(...)
SleepWanted_le(clock, deadline) == clock <= deadline
SleepWanted(clock, deadline) == clock < deadline

\* delay_type++; if (delay_type >= SIZEOF_ARRAY(stress_syncload_ops)) delay_type = 0;
NextDelayType_early(d) == IF d + 2 >= Len(stress_syncload_ops) THEN 0 ELSE d + 1
NextDelayType(d) == IF d + 1 >= Len(stress_syncload_ops) THEN 0 ELSE d + 1

SetEntry_plain == "set_store_lo"
SetEntry == CASE variant = "atomic" -> "set_atomic"
              [] variant = "spinlock" -> "set_lock"
              [] OTHER -> "set_store_lo"
GetEntry_nolock == IF variant = "atomic" THEN "get_atomic" ELSE "get_load_lo"
GetEntry == CASE variant = "atomic" -> "get_atomic"
              [] variant = "spinlock" -> "get_lock"
              [] OTHER -> "get_load_lo"
GetPcs == {"get_atomic", "get_lock", "get_load_lo", "get_load_hi", "get_cond"}
LoopPcs == {"busy_start", "busy_loop", "stop_check", "sleep_adv", "sleeping",
            "loop_cond"}

\* ------------------------------------------------------------------- Init

Settings0 == [n \in {} |-> 0]
Settings(b, s) == [n \in {"syncload-msbusy", "syncload-mssleep"} |->
                     IF n = "syncload-msbusy" THEN b ELSE s]
ConfigSet == {Settings0, Settings(100, 50),
              Settings(STRESS_SYNCLOAD_MS_MIN, STRESS_SYNCLOAD_MS_MAX)}

InitWorkers ==
    /\ start_time = Words(0)
    /\ lock = -1
    /\ g_keep_stressing_flag = TRUE
    /\ now = Epoch
    /\ pc = [w \in Workers |-> IF w \in running THEN "start" ELSE "absent"]
    /\ ret = [w \in Workers |-> 0]
    /\ t = [w \in Workers |-> Words(0)]
    /\ timeout = [w \in Workers |-> 0]
    /\ delay_type = [w \in Workers |-> 0]
    /\ op = [w \in Workers |-> "none"]
    /\ counter = [w \in Workers |-> 0]
    /\ procState = [w \in Workers |-> <<>>]
    /\ rc = [w \in Workers |-> -1]
    /\ published = 0
    /\ stores = 0
    /\ leaderStart = 0
    /\ lockFailed = FALSE
    /\ seed = [w \in Workers |-> 0]
    /\ spins = [w \in Workers |-> 0]
    /\ opRead = [w \in Workers |-> 0]
    /\ busyStarted = [w \in Workers |-> 0]
    /\ sleepFinished = [w \in Workers |-> 0]
    /\ sleepCalls = [w \in Workers |-> 0]
    /\ sleepArg = [w \in Workers |-> SleepNsec(0)]
    /\ exitVia = [w \in Workers |-> "none"]
    /\ jit = [sec |-> 0, r |-> 0, v |-> 0]
    /\ jitterSum = [w \in Workers |-> 0]
    /\ entryStop = [w \in Workers |-> FALSE]
    /\ stopEarly = FALSE
    /\ exited = FALSE
    /\ lastOpt = [setting |-> "", ms |-> 0]

\* All instances of one run, or all but instance 0 (which died before it ran);
\* the shortest phases, one bogo-op.
Init ==
    /\ variant \in Variants
    /\ stress_syncload_ops = OpsX86
    /\ settings = Settings(STRESS_SYNCLOAD_MS_MIN, STRESS_SYNCLOAD_MS_MIN)
    /\ max_ops = 1
    /\ running \in {Workers, Workers \ {0}}
    /\ InitWorkers

\* One instance on its own, over every build, configuration and bogo-op limit.
InitLoop ==
    /\ \E b \in Builds : variant = b[1] /\ stress_syncload_ops = b[2]
    /\ settings \in ConfigSet
    /\ max_ops \in 1 .. MaxOps
    /\ running \in {{w} : w \in Workers}
    /\ InitWorkers

\* One instance on its own, the leader or a non-leader, with the default
\* durations or the longest busy phase, over every build and bogo-op limit.
InitCancel ==
    /\ \E b \in Builds : variant = b[1] /\ stress_syncload_ops = b[2]
    /\ settings \in {Settings0,
                     Settings(STRESS_SYNCLOAD_MS_MAX, STRESS_SYNCLOAD_MS_MIN)}
    /\ max_ops \in 1 .. MaxOps
    /\ running \in {{0}, {NumWorkers - 1}}
    /\ InitWorkers

\* The end-to-end scenario: busy = 100 ms, sleep = 50 ms, instance 0 alone,
\* stopped by a bogo-op limit of three (or earlier by the stop flag).
InitE2E ==
    /\ \E b \in Builds : variant = b[1] /\ stress_syncload_ops = b[2]
    /\ settings = Settings(100, 50)
    /\ max_ops = 3
    /\ running = {0}
    /\ InitWorkers

\* No instance: only the jitter function is evaluated.
InitJitter ==
    /\ variant = "atomic"
    /\ stress_syncload_ops = OpsX86
    /\ settings = Settings0
    /\ max_ops = 0
    /\ running = {}
    /\ InitWorkers

\* One instance that runs one busy phase more than its registry has entries,
\* with the shortest phases.
InitRoundRobin ==
    /\ \E b \in Builds : variant = b[1] /\ stress_syncload_ops = b[2]
    /\ settings = Settings(STRESS_SYNCLOAD_MS_MIN, STRESS_SYNCLOAD_MS_MIN)
    /\ max_ops = Len(stress_syncload_ops) + 1
    /\ running = {0}
    /\ InitWorkers

\* Option parsing: nothing is set yet and no instance was started.
InitConfig ==
    /\ variant \in Variants
    /\ stress_syncload_ops = OpsX86
    /\ settings = Settings0
    /\ max_ops = 1
    /\ running = {}
    /\ InitWorkers

\* ---------------------------------------------------------------- actions

\* stress_set_syncload_ms() without the range check.
stress_set_syncload_ms_unchecked(setting, ms) ==
    /\ ~exited
    /\ running = {}
    /\ lastOpt' = [setting |-> setting, ms |-> ms]
    /\ settings' = stress_set_setting(setting, ms)
    /\ UNCHANGED <<variant, stress_syncload_ops, max_ops, running, exited,
                   syncVars, envVars, getVars, busyVars, sleepVars, endVars,
                   pc, timeout, histVars>>

\* stress_set_syncload_msbusy(opt) / stress_set_syncload_mssleep(opt):
\* ms = stress_get_uint64(opt); stress_check_range(...); stress_set_setting(...).
stress_set_syncload_ms(setting, ms) ==
    /\ ~exited
    /\ running = {}
    /\ lastOpt' = [setting |-> setting, ms |-> ms]
    /\ IF stress_check_range(ms, STRESS_SYNCLOAD_MS_MIN, STRESS_SYNCLOAD_MS_MAX)
       THEN /\ settings' = stress_set_setting(setting, ms)
            /\ UNCHANGED exited
       ELSE /\ exited' = TRUE
            /\ UNCHANGED settings
    /\ UNCHANGED <<variant, stress_syncload_ops, max_ops, running, syncVars,
                   envVars, getVars, busyVars, sleepVars, endVars, pc, timeout,
                   histVars>>

\* The core starts the instances once the options are parsed.
Launch ==
    /\ ~exited
    /\ running = {}
    /\ running' = Workers
    /\ pc' = [w \in Workers |-> "start"]
    /\ UNCHANGED <<variant, stress_syncload_ops, settings, max_ops, exited,
                   lastOpt, syncVars, envVars, getVars, busyVars, sleepVars,
                   endVars, timeout, histVars>>

\* stress_syncload() up to "if (args->instance == 0)".
Start(w) ==
    /\ pc[w] = "start"
    /\ pc' = [pc EXCEPT ![w] = IF IsLeader(w) THEN SetEntry ELSE GetEntry]
    /\ \E x \in TimeNowStartup : now' = x
    /\ leaderStart' = IF w = 0 THEN now' ELSE leaderStart
    /\ UNCHANGED <<cfgVars, syncVars, g_keep_stressing_flag, ret, t, seed,
                   busyVars, sleepVars, endVars, timeout, histVars>>

\* settime, atomic build: now = stress_time_now(); __atomic_store(...).
stress_syncload_settime_atomic(w) ==
    /\ pc[w] = "set_atomic"
    /\ \E x \in TimeNowStartup : now' = x
    /\ start_time' = Words(now')
    /\ published' = now'
    /\ stores' = stores + 1
    /\ pc' = [pc EXCEPT ![w] = GetEntry]
    /\ UNCHANGED <<cfgVars, lock, lockFailed, g_keep_stressing_flag, getVars,
                   busyVars, sleepVars, endVars, timeout, histVars>>

\* shim_pthread_spin_lock(): taken when free, or a non-zero error.
SpinLock(w, next) ==
    /\ \/ /\ lock = -1
          /\ lock' = w
          /\ ret' = [ret EXCEPT ![w] = 0]
          /\ UNCHANGED lockFailed
       \/ /\ ret' = [ret EXCEPT ![w] = 1]
          /\ lockFailed' = TRUE
          /\ UNCHANGED lock
    /\ pc' = [pc EXCEPT ![w] = next]

\* if (ret == 0) shim_pthread_spin_unlock(): the lock after the critical section.
Unlocked(w) == IF variant = "spinlock" /\ ret[w] = 0 THEN -1 ELSE lock

stress_syncload_settime_lock(w) ==
    /\ pc[w] = "set_lock"
    /\ SpinLock(w, "set_store_lo")
    /\ UNCHANGED <<cfgVars, start_time, published, stores, envVars, t, seed,
                   leaderStart, busyVars, sleepVars, endVars, timeout, histVars>>

\* g_shared->syncload.start_time = stress_time_now(): the first word.
stress_syncload_settime_store_lo(w) ==
    /\ pc[w] = "set_store_lo"
    /\ \E x \in TimeNowStartup : now' = x
    /\ published' = now'
    /\ stores' = stores + 1
    /\ start_time' = [start_time EXCEPT !.lo = Lo(now')]
    /\ pc' = [pc EXCEPT ![w] = "set_store_hi"]
    /\ UNCHANGED <<cfgVars, lock, lockFailed, g_keep_stressing_flag, getVars,
                   busyVars, sleepVars, endVars, timeout, histVars>>

\* The second word, shim_mb() and the unlock; ret goes out of scope.
stress_syncload_settime_store_hi(w) ==
    /\ pc[w] = "set_store_hi"
    /\ start_time' = [start_time EXCEPT !.hi = Hi(published)]
    /\ lock' = Unlocked(w)
    /\ ret' = [ret EXCEPT ![w] = 0]
    /\ pc' = [pc EXCEPT ![w] = GetEntry]
    /\ UNCHANGED <<cfgVars, published, stores, lockFailed, envVars, t, seed,
                   leaderStart, busyVars, sleepVars, endVars, timeout, histVars>>

\* gettime, atomic build: __atomic_load(&t, &start_time, __ATOMIC_CONSUME).
stress_syncload_gettime_atomic(w) ==
    /\ pc[w] = "get_atomic"
    /\ t' = [t EXCEPT ![w] = start_time]
    /\ pc' = [pc EXCEPT ![w] = "get_cond"]
    /\ UNCHANGED <<cfgVars, syncVars, envVars, ret, seed, leaderStart, busyVars,
                   sleepVars, endVars, timeout, histVars>>

stress_syncload_gettime_lock(w) ==
    /\ pc[w] = "get_lock"
    /\ SpinLock(w, "get_load_lo")
    /\ UNCHANGED <<cfgVars, start_time, published, stores, envVars, t, seed,
                   leaderStart, busyVars, sleepVars, endVars, timeout, histVars>>

\* t = (volatile double)g_shared->syncload.start_time: the first word.
stress_syncload_gettime_load_lo(w) ==
    /\ pc[w] = "get_load_lo"
    /\ t' = [t EXCEPT ![w].lo = start_time.lo]
    /\ pc' = [pc EXCEPT ![w] = "get_load_hi"]
    /\ UNCHANGED <<cfgVars, syncVars, envVars, ret, seed, leaderStart, busyVars,
                   sleepVars, endVars, timeout, histVars>>

\* The second word and the unlock; ret goes out of scope.
stress_syncload_gettime_load_hi(w) ==
    /\ pc[w] = "get_load_hi"
    /\ t' = [t EXCEPT ![w].hi = start_time.hi]
    /\ lock' = Unlocked(w)
    /\ ret' = [ret EXCEPT ![w] = 0]
    /\ pc' = [pc EXCEPT ![w] = "get_cond"]
    /\ UNCHANGED <<cfgVars, start_time, published, stores, lockFailed, envVars,
                   seed, leaderStart, busyVars, sleepVars, endVars, timeout, histVars>>

\* } while ((t <= 0.0) && keep_stressing(args)); return t;
\* timeout = <the result>; stress_set_proc_state(RUN).
stress_syncload_gettime_cond(w) ==
    /\ pc[w] = "get_cond"
    /\ IF GettimeWaits(w)
       THEN /\ pc' = [pc EXCEPT ![w] = GetEntry]
            /\ UNCHANGED <<timeout, seed, procState, entryStop>>
       ELSE /\ timeout' = [timeout EXCEPT ![w] = Val(t[w])]
            /\ seed' = [seed EXCEPT ![w] = Val(t[w])]
            /\ entryStop' = [entryStop EXCEPT ![w] = ~keep_stressing_flag]
            /\ procState' = [procState EXCEPT ![w] = Append(@, "RUN")]
            /\ pc' = [pc EXCEPT ![w] = "busy_start"]
    /\ UNCHANGED <<cfgVars, syncVars, envVars, ret, t, leaderStart, busyVars,
                   sleepVars, rc, exitVia, jit, jitterSum, stopEarly>>

\* BusyStart with the deadline taken from the last clock reading.
BusyStart_fromnow(w) ==
    /\ pc[w] = "busy_start"
    /\ \E j \in Jitters(sec_busy) :
         /\ timeout' = [timeout EXCEPT ![w] = now + sec_busy + j]
         /\ jitterSum' = [jitterSum EXCEPT ![w] = @ + j]
    /\ op' = [op EXCEPT ![w] = stress_syncload_ops[delay_type[w] + 1]]
    /\ delay_type' = [delay_type EXCEPT ![w] = NextDelayType(@)]
    /\ spins' = [spins EXCEPT ![w] = 0]
    /\ busyStarted' = [busyStarted EXCEPT ![w] = @ + 1]
    /\ pc' = [pc EXCEPT ![w] = "busy_loop"]
    /\ opRead' = [opRead EXCEPT ![w] = 0]
    /\ UNCHANGED <<cfgVars, syncVars, envVars, getVars, sleepVars, endVars, jit,
                   entryStop, stopEarly>>

\* BusyStart behind a test of the stop flag at the top of the loop.
BusyStart_guarded(w) ==
    /\ pc[w] = "busy_start"
    /\ IF ~keep_stressing_flag
       THEN /\ exitVia' = [exitVia EXCEPT ![w] = "break"]
            /\ procState' = [procState EXCEPT ![w] = Append(@, "DEINIT")]
            /\ rc' = [rc EXCEPT ![w] = EXIT_SUCCESS]
            /\ pc' = [pc EXCEPT ![w] = "done"]
            /\ UNCHANGED <<timeout, jitterSum, busyVars>>
       ELSE /\ \E j \in Jitters(sec_busy) :
                 /\ timeout' = [timeout EXCEPT ![w] = @ + sec_busy + j]
                 /\ jitterSum' = [jitterSum EXCEPT ![w] = @ + j]
            /\ op' = [op EXCEPT ![w] = stress_syncload_ops[delay_type[w] + 1]]
            /\ delay_type' = [delay_type EXCEPT ![w] = NextDelayType(@)]
            /\ spins' = [spins EXCEPT ![w] = 0]
            /\ busyStarted' = [busyStarted EXCEPT ![w] = @ + 1]
            /\ pc' = [pc EXCEPT ![w] = "busy_loop"]
            /\ opRead' = [opRead EXCEPT ![w] = 0]
            /\ UNCHANGED endVars
    /\ UNCHANGED <<cfgVars, syncVars, envVars, getVars, sleepVars, jit,
                   entryStop, stopEarly>>

\* The top of the do-loop: select the primitive, advance the cursor, advance
\* timeout by the jittered busy duration.
BusyStart(w) ==
    /\ pc[w] = "busy_start"
    /\ \E j \in Jitters(sec_busy) :
         /\ timeout' = [timeout EXCEPT ![w] = @ + sec_busy + j]
         /\ jitterSum' = [jitterSum EXCEPT ![w] = @ + j]
    /\ op' = [op EXCEPT ![w] = stress_syncload_ops[delay_type[w] + 1]]
    /\ delay_type' = [delay_type EXCEPT ![w] = NextDelayType(@)]
    /\ spins' = [spins EXCEPT ![w] = 0]
    /\ busyStarted' = [busyStarted EXCEPT ![w] = @ + 1]
    /\ pc' = [pc EXCEPT ![w] = "busy_loop"]
    /\ opRead' = [opRead EXCEPT ![w] = 0]
    /\ UNCHANGED <<cfgVars, syncVars, envVars, getVars, sleepVars, endVars, jit,
                   entryStop, stopEarly>>

\* while (stress_time_now() < timeout) op();
BusyLoop(w) ==
    /\ pc[w] = "busy_loop"
    /\ \E x \in TimeNow(timeout[w]) : now' = x
    /\ IF BusyContinues(now', timeout[w])
       THEN /\ spins[w] < MaxSpin
            /\ spins' = [spins EXCEPT ![w] = @ + 1]
            /\ opRead' = [opRead EXCEPT ![w] = now']
            /\ UNCHANGED pc
       ELSE /\ pc' = [pc EXCEPT ![w] = "stop_check"]
            /\ UNCHANGED <<spins, opRead>>
    /\ UNCHANGED <<cfgVars, syncVars, g_keep_stressing_flag, getVars, delay_type,
                   op, busyStarted, sleepVars, endVars, timeout, histVars>>

\* Leave with a failure status returned.
Leave_failure(w, how) ==
    /\ exitVia' = [exitVia EXCEPT ![w] = how]
    /\ procState' = [procState EXCEPT ![w] = Append(@, "DEINIT")]
    /\ rc' = [rc EXCEPT ![w] = EXIT_SUCCESS + 1]
    /\ pc' = [pc EXCEPT ![w] = "done"]

\* stress_set_proc_state(DEINIT); return EXIT_SUCCESS;
Leave(w, how) ==
    /\ exitVia' = [exitVia EXCEPT ![w] = how]
    /\ procState' = [procState EXCEPT ![w] = Append(@, "DEINIT")]
    /\ rc' = [rc EXCEPT ![w] = EXIT_SUCCESS]
    /\ pc' = [pc EXCEPT ![w] = "done"]

\* StopCheck with inc_counter() moved in front of the stop check.
StopCheck_counts(w) ==
    /\ pc[w] = "stop_check"
    /\ IF BreakAfterBusy
       THEN Leave(w, "break")
       ELSE /\ pc' = [pc EXCEPT ![w] = "sleep_adv"]
            /\ UNCHANGED endVars
    /\ counter' = [counter EXCEPT ![w] = @ + 1]
    /\ UNCHANGED <<cfgVars, syncVars, envVars, getVars, busyVars, sleepFinished,
                   sleepCalls, sleepArg, timeout, histVars>>

\* if (!keep_stressing_flag()) break;
StopCheck(w) ==
    /\ pc[w] = "stop_check"
    /\ IF BreakAfterBusy
       THEN Leave(w, "break")
       ELSE /\ pc' = [pc EXCEPT ![w] = "sleep_adv"]
            /\ UNCHANGED endVars
    /\ UNCHANGED <<cfgVars, syncVars, envVars, getVars, busyVars, sleepVars,
                   timeout, histVars>>

\* timeout += sec_sleep + jitter; if (now < timeout) call the sleep; a skipped
\* sleep runs on to inc_counter().
SleepStart(w) ==
    /\ pc[w] = "sleep_adv"
    /\ \E j \in Jitters(sec_sleep) :
         /\ timeout' = [timeout EXCEPT ![w] = @ + sec_sleep + j]
         /\ jitterSum' = [jitterSum EXCEPT ![w] = @ + j]
    /\ \E x \in TimeNow(timeout'[w]) : now' = x
    /\ IF SleepWanted(now', timeout'[w])
       THEN /\ sleepCalls' = [sleepCalls EXCEPT ![w] = @ + 1]
            /\ sleepArg' = [sleepArg EXCEPT ![w] = SleepNsec(syncload_mssleep)]
            /\ pc' = [pc EXCEPT ![w] = "sleeping"]
            /\ UNCHANGED <<sleepFinished, counter>>
       ELSE /\ sleepFinished' = [sleepFinished EXCEPT ![w] = @ + 1]
            /\ counter' = [counter EXCEPT ![w] = @ + 1]
            /\ pc' = [pc EXCEPT ![w] = "loop_cond"]
            /\ UNCHANGED <<sleepCalls, sleepArg>>
    /\ UNCHANGED <<cfgVars, syncVars, g_keep_stressing_flag, getVars, busyVars,
                   endVars, jit, entryStop, stopEarly>>

\* shim_nanosleep_uint64() returns; inc_counter(args).
SleepReturn(w) ==
    /\ pc[w] = "sleeping"
    /\ sleepFinished' = [sleepFinished EXCEPT ![w] = @ + 1]
    /\ counter' = [counter EXCEPT ![w] = @ + 1]
    /\ pc' = [pc EXCEPT ![w] = "loop_cond"]
    /\ UNCHANGED <<cfgVars, syncVars, envVars, getVars, busyVars, sleepCalls,
                   sleepArg, endVars, timeout, histVars>>

\* LoopCond that looks at the bogo-op limit only.
LoopCond_opsonly(w) ==
    /\ pc[w] = "loop_cond"
    /\ IF counter[w] < max_ops
       THEN /\ pc' = [pc EXCEPT ![w] = "busy_start"]
            /\ UNCHANGED endVars
       ELSE Leave(w, "bottom")
    /\ UNCHANGED <<cfgVars, syncVars, envVars, getVars, busyVars, sleepVars,
                   timeout, histVars>>

\* } while (keep_stressing(args));
LoopCond(w) ==
    /\ pc[w] = "loop_cond"
    /\ IF keep_stressing(w)
       THEN /\ pc' = [pc EXCEPT ![w] = "busy_start"]
            /\ UNCHANGED endVars
       ELSE Leave(w, "bottom")
    /\ UNCHANGED <<cfgVars, syncVars, envVars, getVars, busyVars, sleepVars,
                   timeout, histVars>>

\* The stop request: a signal handler clears the flag.
StopSignal ==
    /\ g_keep_stressing_flag
    /\ g_keep_stressing_flag' = FALSE
    /\ stopEarly' = (stores = 0)
    /\ UNCHANGED <<cfgVars, syncVars, now, getVars, busyVars, sleepVars, endVars,
                   pc, timeout, jit, jitterSum, entryStop>>

\* The steps up to the return of stress_syncload_gettime().
StartupStep(w) ==
    \/ Start(w)
    \/ stress_syncload_settime_atomic(w)
    \/ stress_syncload_settime_lock(w)
    \/ stress_syncload_settime_store_lo(w)
    \/ stress_syncload_settime_store_hi(w)
    \/ stress_syncload_gettime_atomic(w)
    \/ stress_syncload_gettime_lock(w)
    \/ stress_syncload_gettime_load_lo(w)
    \/ stress_syncload_gettime_load_hi(w)
    \/ stress_syncload_gettime_cond(w)

\* The steps of the busy/sleep loop.
LoopStep(w) ==
    \/ BusyStart(w)
    \/ BusyLoop(w)
    \/ StopCheck(w)
    \/ SleepStart(w)
    \/ SleepReturn(w)
    \/ LoopCond(w)

WorkerStep(w) == StartupStep(w) \/ LoopStep(w)

\* The run up to the point where every worker has its reference time.
NextStartup ==
    \/ \E w \in Workers : StartupStep(w)
    \/ StopSignal

Next ==
    \/ \E w \in Workers : WorkerStep(w)
    \/ StopSignal

\* stress_syncload_jitter(sec) on a phase length of a whole number of
\* milliseconds and one value of the random source.
JitterCall ==
    /\ \E ms \in {STRESS_SYNCLOAD_MS_MIN, 50, STRESS_SYNCLOAD_MS_DEFAULT \div 2, 100,
                   STRESS_SYNCLOAD_MS_DEFAULT, STRESS_SYNCLOAD_MS_MAX},
          r \in Mwc8 :
         jit' = [sec |-> SecOfMs(ms), r |-> r,
                 v |-> stress_syncload_jitter(SecOfMs(ms), r)]
    /\ UNCHANGED <<cfgVars, syncVars, envVars, getVars, busyVars, sleepVars,
                   endVars, pc, timeout, jitterSum, entryStop, stopEarly>>

NextJitter == JitterCall

\* Option parsing followed by the start of the instances.
NextConfig ==
    \/ \E setting \in OptNames, ms \in OptValues : stress_set_syncload_ms(setting, ms)
    \/ Launch

Spec == Init /\ [][Next]_vars

\* The startup alone.
StartupSpec == Init /\ [][NextStartup]_vars

\* The startup alone; every started instance keeps being scheduled.
FairStartupSpec ==
    Init /\ [][NextStartup]_vars /\ \A w \in Workers : WF_vars(StartupStep(w))

SpecLoop == InitLoop /\ [][Next]_vars

\* One instance that keeps being scheduled; its clock reaches every deadline
\* after at most MaxSpin invocations of the primitive.
FairLoopSpec ==
    InitCancel /\ [][Next]_vars /\ \A w \in Workers : WF_vars(WorkerStep(w))

SpecE2E == InitE2E /\ [][Next]_vars

SpecJitter == InitJitter /\ [][NextJitter]_vars

SpecRoundRobin == InitRoundRobin /\ [][Next]_vars

SpecConfig == InitConfig /\ [][NextConfig]_vars

\* ------------------------------------------------------------------ claims

\* gettime has returned to worker w: seed[w] is what it returned.
Returned(w) == pc[w] \in LoopPcs \cup {"done"}

\* The build keeps a load of start_time apart from a store in progress.
SyncSound == variant = "atomic" \/ (variant = "spinlock" /\ ~lockFailed)

\* C1 as stated: in every build and interleaving, a worker whose gettime
\* returned a positive value got exactly the published value, which is not
\* earlier than the leader's clock at its start.
C1_SameReferenceTime_AnyBuild ==
    \A w \in Workers :
        Returned(w) /\ seed[w] > 0 =>
            seed[w] = published /\ seed[w] >= leaderStart

\* C1 in the builds that synchronise: in the atomic build, and in the spinlock
\* build while every lock acquisition succeeds, a worker whose gettime
\* returned a positive value got exactly the published value, which is not
\* earlier than the leader's clock at its start.
C1_SameReferenceTime ==
    SyncSound => C1_SameReferenceTime_AnyBuild

\* C1 witness: two workers were seeded with the same published time, which
\* is later than the leader's clock at its start.
C1_Witness ==
    /\ SyncSound
    /\ published > leaderStart
    /\ \E v, w \in Workers :
          v # w /\ Returned(v) /\ Returned(w) /\ seed[v] = published
          /\ seed[w] = published

\* A store into start_time is under way: its first word is written, its
\* second is not.
StoreInProgress == \E w \in Workers : pc[w] = "set_store_hi"

StartTimeSettled == Val(start_time) <= 0 \/ Val(start_time) = published

\* start_time changes only in a step of instance 0 inside settime.
OnlyLeaderSettimeWrites ==
    start_time' # start_time =>
        /\ pc[0] \in {"set_atomic", "set_store_lo", "set_store_hi"}
        /\ pc'[0] # pc[0]
        /\ \A w \in Workers \ {0} : pc'[w] = pc[w]

\* Once the store is complete start_time keeps its value.
SetOnceKept ==
    stores > 0 /\ ~StoreInProgress => start_time' = start_time

\* C2 as stated: in every reachable state start_time is unset or the
\* published value; only instance 0 writes it, only in settime, at most once,
\* and nothing changes it afterwards.
C2_WriteOnce_EveryState ==
    /\ [](StartTimeSettled /\ stores <= 1)
    /\ [][OnlyLeaderSettimeWrites /\ SetOnceKept]_vars

\* C2 amended: in every reachable state in which no store into start_time is
\* under way, start_time is unset or the published value; only instance 0
\* writes it, only in settime, at most once, and nothing changes it afterwards.
C2_WriteOnce ==
    /\ []((~StoreInProgress => StartTimeSettled) /\ stores <= 1)
    /\ [][OnlyLeaderSettimeWrites /\ SetOnceKept]_vars

\* C2 witness: the time is published and a non-leader is in its busy/sleep
\* loop while start_time still holds the published value.
C2_Witness ==
    /\ stores = 1
    /\ Val(start_time) = published
    /\ \E w \in Workers \ {0} : pc[w] = "sleeping"

\* C3: once the stop is asserted every worker inside gettime leaves it, a
\* worker returns a non-positive value only under an asserted stop, and what it
\* returns is the value it last loaded (non-positive when nothing was stored).
C3_CancellationLiveness ==
    \A w \in Workers :
        /\ (~g_keep_stressing_flag /\ pc[w] \in GetPcs) ~> (pc[w] \notin GetPcs)
        /\ [](Returned(w) /\ seed[w] <= 0 => ~g_keep_stressing_flag)
        /\ [](Returned(w) => seed[w] = Val(t[w]))
        /\ [](Returned(w) /\ stores = 0 => seed[w] <= 0)

\* C3 witness: instance 0 never ran, the stop is asserted, and a worker has
\* left gettime with the unset value.
C3_Witness ==
    /\ 0 \notin running
    /\ stores = 0
    /\ \E w \in Workers : Returned(w) /\ seed[w] <= 0 /\ ~g_keep_stressing_flag

\* A worker's load of start_time is complete: t[w] is what it observed.
LoadComplete(w) == pc[w] = "get_cond" \/ Returned(w)

\* C4: in the atomic build, and in the spinlock build while the lock
\* acquisitions succeed, no complete load of start_time observes anything
\* but the unset value or the whole published value.
C4_NoTornRead ==
    SyncSound =>
        \A w \in Workers :
            LoadComplete(w) => Val(t[w]) = 0 \/ Val(t[w]) = published

\* C4 witness: in the spinlock build with every acquisition successful, one
\* reader has loaded the whole published value while another is in the middle
\* of its own load.
C4_Witness ==
    /\ variant = "spinlock"
    /\ ~lockFailed
    /\ published > 0
    /\ \E v, w \in Workers :
          /\ v # w
          /\ pc[v] = "get_cond" /\ Val(t[v]) = published
          /\ pc[w] = "get_load_hi"

\* The counter moves by one, together with the end of a sleep phase.
C5_Step(w) ==
    /\ counter'[w] # counter[w] =>
          /\ counter'[w] = counter[w] + 1
          /\ sleepFinished'[w] = sleepFinished[w] + 1
          /\ pc[w] \in {"sleep_adv", "sleeping"}
    /\ exitVia'[w] = "break" => counter'[w] = counter[w]

\* C5: the counter equals the number of sleep phases finished (slept or
\* skipped), the busy phases started are that many or one more, the counter
\* moves only by one at the end of a sleep phase, and an exit after a busy
\* phase leaves it one short of the busy phases started.
C5_CounterPerCycle ==
    /\ [](\A w \in Workers :
            /\ counter[w] = sleepFinished[w]
            /\ busyStarted[w] \in {counter[w], counter[w] + 1}
            /\ exitVia[w] = "break" => busyStarted[w] = counter[w] + 1
            /\ exitVia[w] = "bottom" => busyStarted[w] = counter[w])
    /\ [][\A w \in Workers : C5_Step(w)]_vars

\* C5 witness: a worker left after its second busy phase with one bogo-op,
\* which came from a skipped sleep.
C5_Witness ==
    \E w \in Workers :
        /\ exitVia[w] = "break"
        /\ busyStarted[w] = 2
        /\ counter[w] = 1
        /\ sleepCalls[w] = 0

C6_Step(w) ==
    /\ pc[w] = "stop_check" /\ ~g_keep_stressing_flag /\ pc'[w] # pc[w] =>
          /\ pc'[w] = "done"
          /\ procState'[w] = Append(procState[w], "DEINIT")
          /\ timeout'[w] = timeout[w]
          /\ sleepCalls'[w] = sleepCalls[w]
          /\ counter'[w] = counter[w]
    /\ pc[w] = "done" =>
          /\ pc'[w] = "done"
          /\ timeout'[w] = timeout[w]
          /\ sleepCalls'[w] = sleepCalls[w]
          /\ counter'[w] = counter[w]

\* C6: a worker that finds the stop asserted after a busy phase reports
\* DEINIT and returns in that step, with timeout, the number of sleep calls and
\* the counter unchanged then and ever after.
C6_StopAfterBusy == [][\A w \in Workers : C6_Step(w)]_vars

\* C6 witness: a worker with a valid reference time spun in its first busy
\* phase and left from the stop check after it.
C6_Witness ==
    \E w \in Workers :
        /\ exitVia[w] = "break"
        /\ seed[w] > 0
        /\ spins[w] > 0
        /\ busyStarted[w] = 1
        /\ timeout[w] = seed[w] + sec_busy

\* The argument of the sleep call is syncload_mssleep * 1000000 ns.
NominalSleep(arg) ==
    /\ arg.nsec % 1000000 = 0
    /\ arg.nsec < 1000000000
    /\ arg.sec * 1000 + arg.nsec \div 1000000 = syncload_mssleep

C7_Step(w) ==
    /\ pc[w] = "sleep_adv" /\ pc'[w] # pc[w] =>
          /\ timeout'[w] - timeout[w] - sec_sleep
                \in {-(sec_sleep \div 10), 0, sec_sleep \div 10}
          /\ IF now' < timeout'[w]
             THEN /\ sleepCalls'[w] = sleepCalls[w] + 1
                  /\ NominalSleep(sleepArg'[w])
                  /\ pc'[w] = "sleeping"
             ELSE /\ sleepCalls'[w] = sleepCalls[w]
                  /\ counter'[w] = counter[w] + 1
                  /\ pc'[w] = "loop_cond"
    /\ pc[w] = "sleeping" /\ pc'[w] # pc[w] =>
          /\ sleepCalls'[w] = sleepCalls[w]
          /\ timeout'[w] = timeout[w]
          /\ counter'[w] = counter[w] + 1
          /\ pc'[w] = "loop_cond"
    /\ sleepCalls'[w] # sleepCalls[w] => pc[w] = "sleep_adv"

\* C7: the sleep phase adds sec_sleep plus a jitter of -10%, 0 or +10% of it
\* to timeout, then calls the sleep once, for syncload_mssleep * 1000000 ns,
\* when the clock reads less than the new timeout, and not at all otherwise;
\* the counter is incremented in both cases.
C7_SleepPhase == [][\A w \in Workers : C7_Step(w)]_vars

\* C7 witness: with 10 s phases a worker slept once for 10 s and skipped one
\* sleep, and has two bogo-ops.
C7_Witness ==
    \E w \in Workers :
        /\ syncload_mssleep = STRESS_SYNCLOAD_MS_MAX
        /\ sleepCalls[w] = 1
        /\ sleepArg[w] = [sec |-> 10, nsec |-> 0]
        /\ counter[w] = 2

C8_Step(w) ==
    /\ spins'[w] > spins[w] =>
          /\ pc[w] = "busy_loop"
          /\ spins'[w] = spins[w] + 1
          /\ now' < timeout[w]
          /\ opRead'[w] = now'
    /\ pc[w] = "busy_loop" =>
          /\ timeout'[w] = timeout[w]
          /\ now >= timeout[w] => spins'[w] = spins[w]
    /\ pc[w] = "busy_loop" /\ pc'[w] # pc[w] =>
          /\ now' >= timeout[w]
          /\ spins[w] > 0 => now' - timeout[w] < now' - opRead[w]

\* C8: every call of the primitive follows a clock reading below timeout, so
\* the reading that ends the busy phase is past timeout by less than the time
\* since the reading before the last call; with the clock at or past timeout
\* no primitive is called.
C8_BoundedOvershoot == [][\A w \in Workers : C8_Step(w)]_vars

\* C8 witness: with the shortest busy phase a worker called the primitive and
\* its busy phase ended on a reading equal to timeout.
C8_Witness ==
    \E w \in Workers :
        /\ syncload_msbusy = STRESS_SYNCLOAD_MS_MIN
        /\ pc[w] = "stop_check"
        /\ spins[w] > 0
        /\ opRead[w] < timeout[w]
        /\ now = timeout[w]

\* C9: with busy = 100 ms and sleep = 50 ms a worker that leaves at the loop
\* condition after n bogo-ops has timeout - seed between n * 135 ms and
\* n * 165 ms, and n is the bogo-op limit when the stop flag was not the cause.
C9_EndToEnd ==
    \A w \in Workers :
        settings = Settings(100, 50) /\ exitVia[w] = "bottom" =>
            /\ counter[w] >= 1
            /\ timeout[w] - seed[w] >= counter[w] * 1350
            /\ timeout[w] - seed[w] <= counter[w] * 1650
            /\ g_keep_stressing_flag => counter[w] = max_ops

\* C9 witness: the spec's scenario, three cycles from a valid reference time,
\* every phase with the +10% jitter.
C9_Witness ==
    \E w \in Workers :
        /\ settings = Settings(100, 50)
        /\ max_ops = 3
        /\ g_keep_stressing_flag
        /\ exitVia[w] = "bottom"
        /\ counter[w] = 3
        /\ seed[w] > 0
        /\ timeout[w] - seed[w] = 3 * 1650

\* C10: for sec > 0 and every value of the random source the jitter is
\* -sec/10, 0 or +sec/10, and never larger in magnitude than sec/10.
C10_JitterRange ==
    jit.sec > 0 =>
        /\ jit.v \in {-(jit.sec \div 10), 0, jit.sec \div 10}
        /\ jit.v <= jit.sec \div 10
        /\ -jit.v <= jit.sec \div 10

\* C10 witness: the jitter of a 10 s phase is +1 s for one value of the
\* random source.
C10_Witness ==
    /\ jit.sec = 100000
    /\ jit.v = 10000

\* The three outcomes the jitter of a phase of length sec is said to have.
JitterOutcomes(sec) == {sec \div 10, -(sec \div 10), 0}

\* C11 as stated: for a phase length sec > 0, each of +sec/10, -sec/10 and 0
\* is returned by stress_syncload_jitter(sec) for at least one value of the
\* random source.
C11_AllThreeOutcomes ==
    jit.sec > 0 =>
        \A o \in JitterOutcomes(jit.sec) :
            \E r \in Mwc8 : stress_syncload_jitter(jit.sec, r) = o

\* C11 witness: a value of the random source whose bits 3 and 4 are 01, the
\* pattern that would select "case 1" under a mask of 3, has been drawn for a
\* phase of 125 ms and the jitter returned is not negative.
C11_Witness ==
    /\ jit.sec = SecOfMs(STRESS_SYNCLOAD_MS_DEFAULT)
    /\ (jit.r \div 8) % 4 = 1
    /\ jit.v >= 0

\* C12: a worker reports nothing before gettime returns, RUN and nothing
\* else while it is in the loop, and RUN then DEINIT once it has left; it has
\* no return value before it leaves, leaves only by the break after a busy
\* phase or at the loop condition, and returns EXIT_SUCCESS on both paths, also
\* when its reference time is not positive.
C12_EndsInDeinit ==
    \A w \in Workers :
        /\ pc[w] \notin LoopPcs \cup {"done"} => procState[w] = <<>> /\ rc[w] = -1
        /\ pc[w] \in LoopPcs =>
              procState[w] = <<"RUN">> /\ rc[w] = -1 /\ exitVia[w] = "none"
        /\ pc[w] = "done" =>
              /\ procState[w] = <<"RUN", "DEINIT">>
              /\ rc[w] = EXIT_SUCCESS
              /\ exitVia[w] \in {"break", "bottom"}

\* C12 witness: a worker whose reference time was never established has left
\* by the break after its busy phase and returned EXIT_SUCCESS.
C12_Witness ==
    \E w \in Workers :
        /\ pc[w] = "done"
        /\ seed[w] <= 0
        /\ exitVia[w] = "break"
        /\ procState[w] = <<"RUN", "DEINIT">>
        /\ rc[w] = EXIT_SUCCESS

\* C13 as stated: with no duration option set, a worker that has called the
\* sleep primitive ran with a busy duration of 125 ms and a sleep duration of
\* exactly half of it, 62.5 ms, both in sec_sleep and in the length of the
\* sleep call (62 500 000 ns).
C13_DefaultSleepIsHalf ==
    \A w \in Workers :
        settings = Settings0 /\ sleepCalls[w] > 0 =>
            /\ sec_busy = SecOfMs(STRESS_SYNCLOAD_MS_DEFAULT)
            /\ 2 * sec_sleep = sec_busy
            /\ sleepArg[w].sec = 0
            /\ 2 * sleepArg[w].nsec = STRESS_SYNCLOAD_MS_DEFAULT * 1000000

\* C13 witness: with no duration option set a worker has called the sleep
\* primitive, for 62 000 000 ns, after a busy duration of 125 ms and with
\* sec_sleep at 62 ms.
C13_Witness ==
    \E w \in Workers :
        /\ settings = Settings0
        /\ sleepCalls[w] > 0
        /\ sec_busy = SecOfMs(STRESS_SYNCLOAD_MS_DEFAULT)
        /\ sec_sleep = SecOfMs(62)
        /\ sleepArg[w] = [sec |-> 0, nsec |-> 62000000]

\* The range [1, 10000] of C14, written out.
InRange(ms) == 1 <= ms /\ ms <= 10000

\* A call of stress_set_syncload_ms: an accepted value is stored under its
\* name and leaves the other setting alone, a rejected one leaves the settings
\* unchanged and ends the process.
C14_Step ==
    lastOpt' # lastOpt \/ settings' # settings \/ exited' # exited =>
        IF InRange(lastOpt'.ms)
        THEN /\ lastOpt'.setting \in DOMAIN settings'
             /\ settings'[lastOpt'.setting] = lastOpt'.ms
             /\ DOMAIN settings' = DOMAIN settings \cup {lastOpt'.setting}
             /\ \A n \in DOMAIN settings \ {lastOpt'.setting} :
                    settings'[n] = settings[n]
             /\ ~exited'
        ELSE settings' = settings /\ exited'

K == Len(stress_syncload_ops)

\* The worker is inside a busy phase.
InBusy(w) == pc[w] \in {"busy_loop", "stop_check"}

\* The cursor and the selected primitive change only at the start of a busy
\* phase, the cursor by one step around the registry; an invocation of the
\* primitive inside the phase invokes the selected one and moves neither.
C15_Step(w) ==
    /\ delay_type'[w] # delay_type[w] \/ op'[w] # op[w] =>
          /\ busyStarted'[w] = busyStarted[w] + 1
          /\ delay_type'[w] = (delay_type[w] + 1) % K
    /\ busyStarted'[w] = busyStarted[w] + 1 =>
          delay_type'[w] = (delay_type[w] + 1) % K
    /\ spins'[w] = spins[w] + 1 =>
          /\ busyStarted'[w] = busyStarted[w]
          /\ op'[w] = stress_syncload_ops[((busyStarted[w] - 1) % K) + 1]

\* C15: the cursor stays in 0..k-1 and is the number of busy phases started
\* modulo k; busy phase number i (from 0) runs primitive i mod k throughout;
\* the cursor advances once per busy phase and not per invocation; so phase
\* number k runs the first primitive again.
C15_RoundRobin ==
    /\ [](\A w \in Workers :
            /\ delay_type[w] \in 0 .. (K - 1)
            /\ delay_type[w] = busyStarted[w] % K
            /\ InBusy(w) =>
                  op[w] = stress_syncload_ops[((busyStarted[w] - 1) % K) + 1]
            /\ busyStarted[w] = K + 1 => op[w] = stress_syncload_ops[1])
    /\ [][\A w \in Workers : C15_Step(w)]_vars

\* C15 witness: after k busy phases the worker is in busy phase number k, the
\* cursor went around once, and the first primitive has been invoked again.
C15_Witness ==
    \E w \in Workers :
        /\ busyStarted[w] = K + 1
        /\ InBusy(w)
        /\ op[w] = "none"
        /\ delay_type[w] = 1
        /\ spins[w] > 0

\* Sleep phases started: those finished, and the one the worker sleeps in.
SleepsStarted(w) == sleepFinished[w] + (IF pc[w] = "sleeping" THEN 1 ELSE 0)

\* timeout changes only when gettime's result seeds it and at the start of a
\* phase, and there by the phase's duration plus one of the jitter outcomes of
\* that duration, which is more than zero.
C16_Step(w) ==
    /\ timeout'[w] # timeout[w] =>
          \/ pc[w] = "get_cond" /\ timeout'[w] = seed'[w]
          \/ /\ pc[w] = "busy_start"
             /\ timeout'[w] - timeout[w] - sec_busy \in JitterOutcomes(sec_busy)
          \/ /\ pc[w] = "sleep_adv"
             /\ timeout'[w] - timeout[w] - sec_sleep \in JitterOutcomes(sec_sleep)
    /\ busyStarted'[w] # busyStarted[w] \/ SleepsStarted(w)' # SleepsStarted(w) =>
          timeout'[w] > timeout[w]

\* C16: after the seed, timeout is the seed plus the durations of the phases
\* started plus the jitters drawn for them, whatever the clock readings were;
\* it changes only at the start of a phase, by duration + jitter(duration), and
\* every phase increases it.
C16_PureAccumulator ==
    /\ [](\A w \in Workers :
            Returned(w) =>
                timeout[w] = seed[w] + busyStarted[w] * sec_busy
                             + SleepsStarted(w) * sec_sleep + jitterSum[w])
    /\ [][\A w \in Workers : C16_Step(w)]_vars

\* C16 witness: in its second busy phase, after a sleep phase that was skipped
\* because the clock had reached the deadline, with a jitter added and the
\* clock now behind the deadline, a worker's timeout is the seed plus the three
\* increments.
C16_Witness ==
    \E w \in Workers :
        /\ settings = Settings(100, 50)
        /\ pc[w] = "busy_loop"
        /\ busyStarted[w] = 2
        /\ sleepFinished[w] = 1
        /\ sleepCalls[w] = 0
        /\ jitterSum[w] > 0
        /\ now < timeout[w]
        /\ seed[w] > 0
        /\ timeout[w] = seed[w] + 2 * 1000 + 500 + jitterSum[w]

\* The positions of a busy phase that has started, and of a sleep phase that
\* is about to start or has started.
BusyPhasePcs == {"busy_loop", "stop_check"}
SleepPhasePcs == {"sleep_adv", "sleeping", "loop_cond"}

\* With the stop asserted, a worker about to enter a busy phase enters it, a
\* worker in a busy phase stays in it or leaves the loop, and a worker in or
\* about to enter a sleep phase stays in it or leaves the loop: no sleep phase
\* follows a busy phase and no busy phase follows a sleep phase.
C17_Step(w) ==
    ~g_keep_stressing_flag =>
        /\ ~g_keep_stressing_flag'
        /\ pc[w] = "busy_start" => pc'[w] \in {"busy_start", "busy_loop"}
        /\ pc[w] \in BusyPhasePcs => pc'[w] \in BusyPhasePcs \cup {"done"}
        /\ pc[w] \in SleepPhasePcs =>
              /\ pc'[w] \in SleepPhasePcs \cup {"done"}
              /\ pc'[w] = "sleep_adv" => pc[w] = "sleep_adv"
        /\ pc[w] \in BusyPhasePcs \cup {"sleeping", "loop_cond"} =>
              /\ busyStarted'[w] = busyStarted[w]
              /\ SleepsStarted(w)' = SleepsStarted(w)
              /\ timeout'[w] = timeout[w]

\* C17: once the stop is asserted it stays asserted, a worker in the loop
\* finishes the phase it is in, or the one phase it was about to enter, and
\* starts no phase after that; with the worker scheduled and the clock
\* reaching the deadline it gets to DEINIT.
C17_BoundedCancellation ==
    /\ [][\A w \in Workers : C17_Step(w)]_vars
    /\ \A w \in Workers :
          (~g_keep_stressing_flag /\ pc[w] \in LoopPcs) ~> (pc[w] = "done")

\* C17 witness: the stop came while a worker was spinning in its second busy
\* phase; the worker left by the break after that phase.
C17_Witness ==
    \E w \in Workers :
        /\ pc[w] = "done"
        /\ exitVia[w] = "break"
        /\ ~entryStop[w]
        /\ busyStarted[w] = 2
        /\ counter[w] = 1
        /\ spins[w] > 0
        /\ ~g_keep_stressing_flag

\* The stop was asserted when gettime returned a positive reference time to w.
StoppedAtEntry(w) == Returned(w) /\ entryStop[w] /\ seed[w] > 0

\* C18 as stated: the stop condition is tested before the first busy phase too,
\* so a worker for which it is asserted when it has obtained a positive
\* reference time goes to DEINIT with timeout still at the seed and without an
\* invocation of a spin primitive.
C18_StopCheckedAtTop ==
    \A w \in Workers :
        StoppedAtEntry(w) =>
            /\ pc[w] \in {"busy_start", "done"}
            /\ timeout[w] = seed[w]
            /\ busyStarted[w] = 0
            /\ spins[w] = 0

\* C18 amended: the stop condition is tested after every busy phase and at the
\* bottom of every iteration, not before the first busy phase.  A worker for
\* which it is asserted when it has obtained a positive reference time starts
\* that busy phase: timeout advances once by the jittered busy duration and the
\* primitive is invoked while the clock is below it; then the worker leaves by
\* the break, with no sleep phase and the counter at 0.
C18_FirstBusyPhaseRuns ==
    /\ [](\A w \in Workers :
            StoppedAtEntry(w) =>
                /\ pc[w] \in {"busy_start"} \cup BusyPhasePcs \cup {"done"}
                /\ busyStarted[w] = (IF pc[w] = "busy_start" THEN 0 ELSE 1)
                /\ timeout[w] = seed[w] + busyStarted[w] * sec_busy + jitterSum[w]
                /\ SleepsStarted(w) = 0
                /\ sleepCalls[w] = 0
                /\ counter[w] = 0
                /\ pc[w] = "done" => exitVia[w] = "break")
    /\ [][\A w \in Workers :
            StoppedAtEntry(w) /\ pc[w] = "busy_start" /\ pc'[w] # pc[w] =>
                /\ pc'[w] = "busy_loop"
                /\ timeout'[w] - timeout[w] - sec_busy \in JitterOutcomes(sec_busy)
                /\ timeout'[w] > seed[w]]_vars

\* C18 witness: a worker that obtained a positive reference time with the stop
\* already asserted has invoked the spin primitive in its first busy phase and
\* then left by the break.
C18_Witness ==
    \E w \in Workers :
        /\ StoppedAtEntry(w)
        /\ pc[w] = "done"
        /\ exitVia[w] = "break"
        /\ busyStarted[w] = 1
        /\ spins[w] > 0
        /\ timeout[w] > seed[w]
        /\ counter[w] = 0

\* What the claim rules out for a worker: an invocation of a spin primitive, a
\* sleep, a counted cycle.
NoCycles(w) ==
    /\ spins[w] = 0
    /\ busyStarted[w] <= 1
    /\ SleepsStarted(w) = 0
    /\ sleepCalls[w] = 0
    /\ counter[w] = 0

\* C19 as stated: when the stop was asserted before any store of the reference
\* time, a worker leaves the startup wait with a non-positive seed and then
\* invokes no spin primitive, does not sleep and counts nothing.
C19_EarlyStopMeansNoCycles ==
    \A w \in Workers :
        stopEarly /\ Returned(w) => seed[w] <= 0 /\ NoCycles(w)

\* C19 amended: when the stop is asserted and the reference time is still
\* unpublished at the worker's last load of it, the worker leaves the startup
\* wait with a non-positive seed; a worker that left with a non-positive seed
\* did so under an asserted stop, finds the clock above its one deadline,
\* invokes no spin primitive, does not sleep, counts nothing, leaves by the
\* break after its one busy phase and reaches DEINIT.
C19_InvalidSeedNoCycles ==
    /\ [](\A w \in Workers :
            /\ Returned(w) /\ stores = 0 => seed[w] <= 0
            /\ Returned(w) /\ seed[w] <= 0 =>
                  /\ entryStop[w]
                  /\ ~g_keep_stressing_flag
                  /\ now > timeout[w]
                  /\ timeout[w] <= 110000
                  /\ NoCycles(w)
                  /\ pc[w] \in {"busy_start"} \cup BusyPhasePcs \cup {"done"}
                  /\ pc[w] = "done" =>
                        exitVia[w] = "break" /\ procState[w] = <<"RUN", "DEINIT">>)
    /\ \A w \in Workers : (Returned(w) /\ seed[w] <= 0) ~> (pc[w] = "done")

\* C19 witness: the reference time was never published, the stop was asserted,
\* and a worker has gone through its one busy phase, of 10 s plus 1 s of
\* jitter counted from zero, without an invocation and reached DEINIT with the
\* counter at 0.
C19_Witness ==
    \E w \in Workers :
        /\ stores = 0
        /\ stopEarly
        /\ seed[w] <= 0
        /\ pc[w] = "done"
        /\ busyStarted[w] = 1
        /\ timeout[w] = 110000
        /\ now > timeout[w]
        /\ NoCycles(w)

TypeOK == pc \in [Workers -> GetPcs \cup LoopPcs \cup
                     {"absent", "start", "set_atomic", "set_lock",
                      "set_store_lo", "set_store_hi", "done"}]
====
